---- MODULE Spec2Model ----
(***************************************************************************)
(* Model of docker-validation/docker_validator.py: the image reference     *)
(* parser (parse_image_name) and the batch validator                       *)
(* (validate_image_list / validate_single_image and the network helpers).  *)
(*                                                                         *)
(* Python strings are modelled as sequences of one-character strings, so   *)
(* that rsplit, split, join, startswith and replace are computed and not   *)
(* assumed.                                                                *)
(***************************************************************************)
EXTENDS Integers, Sequences, FiniteSets, TLC

VARIABLES
    pc,            \* position of the batch run inside validate_image_list
    images,        \* the argument of validate_image_list
    idx,           \* 1-based position of the for loop in images
    total_images,  \* results['total_images']
    results,       \* results['results']: mapping image string -> result
    result,        \* the result dict validate_single_image is building
    net,           \* the network requests made so far for the current image
    log,           \* the pipeline steps finished so far in this batch
    ppc,           \* position of the parser run
    pin,           \* the string given to parse_image_name
    pout,          \* parse_image_name(pin)
    pout2          \* parse_image_name(canonical reconstruction of pout)

vars == <<pc, images, idx, total_images, results, result, net, log,
          ppc, pin, pout, pout2>>

batchVars == <<pc, images, idx, total_images, results, result, net, log>>
parseVars == <<ppc, pin, pout, pout2>>

----------------------------------------------------------------------------
(* Bounds *)

\* longest generated input string of the parser run
MaxLen == 5
\* longest image list given to validate_image_list
MaxImages == 2
\* largest number of entries the tag-listing API answers with
MaxApiTags == 11

\* results[:10], the tag limit of get_available_tags
TagLimit == 10

----------------------------------------------------------------------------
(* Strings *)

Alphabet == {"a", ".", ":", "/"}

DockerIo == <<"d", "o", "c", "k", "e", "r", ".", "i", "o">>
Latest == <<"l", "a", "t", "e", "s", "t">>
LibraryPrefix == <<"l", "i", "b", "r", "a", "r", "y", "/">>

\* c in s
Contains(s, c) == \E i \in 1..Len(s) : s[i] = c

\* s.rsplit(c, 1) for a string s that contains c
RSplit1(s, c) ==
    LET k == CHOOSE i \in 1..Len(s) :
                 s[i] = c /\ \A j \in (i+1)..Len(s) : s[j] # c
    IN  <<SubSeq(s, 1, k - 1), SubSeq(s, k + 1, Len(s))>>

\* s.split(c, 1) for a string s that contains c
Split1(s, c) ==
    LET k == CHOOSE i \in 1..Len(s) :
                 s[i] = c /\ \A j \in 1..(i-1) : s[j] # c
    IN  <<SubSeq(s, 1, k - 1), SubSeq(s, k + 1, Len(s))>>

\* s.split(c): the list of the segments of s between occurrences of c
RECURSIVE Split(_, _)
Split(s, c) ==
    IF ~Contains(s, c) THEN <<s>>
    ELSE LET h == Split1(s, c) IN <<h[1]>> \o Split(h[2], c)

\* c.join(parts)
RECURSIVE Join(_, _)
Join(parts, c) ==
    IF Len(parts) = 0 THEN <<>>
    ELSE IF Len(parts) = 1 THEN parts[1]
    ELSE parts[1] \o <<c>> \o Join(Tail(parts), c)

\* s.startswith(p)
StartsWith(s, p) == Len(s) >= Len(p) /\ SubSeq(s, 1, Len(p)) = p

\* s.replace(p, ''), p non-empty: every non-overlapping occurrence of p,
\* scanning from the left, is removed
RECURSIVE RemoveAll(_, _)
RemoveAll(s, p) ==
    IF Len(s) = 0 THEN <<>>
    ELSE IF StartsWith(s, p) THEN RemoveAll(SubSeq(s, Len(p) + 1, Len(s)), p)
    ELSE <<Head(s)>> \o RemoveAll(Tail(s), p)

----------------------------------------------------------------------------
(* parse_image_name *)

\* Mutant: the registry prefix is not stripped from the repository.
parse_image_name_keep_registry(image) ==
    LET hasTag == Contains(image, ":")
        name == IF hasTag THEN RSplit1(image, ":")[1] ELSE image
        tag == IF hasTag THEN RSplit1(image, ":")[2] ELSE Latest
    IN  IF Contains(name, "/")
        THEN LET parts == Split(name, "/")
             IN  IF Contains(parts[1], ".") \/ Contains(parts[1], ":")
                 THEN <<parts[1], name, tag>>
                 ELSE <<DockerIo, name, tag>>
        ELSE <<DockerIo, LibraryPrefix \o name, tag>>

\* Mutant: the tag is split off at the first ':' instead of the last.
parse_image_name_first_colon(image) ==
    LET hasTag == Contains(image, ":")
        name == IF hasTag THEN Split1(image, ":")[1] ELSE image
        tag == IF hasTag THEN Split1(image, ":")[2] ELSE Latest
    IN  IF Contains(name, "/")
        THEN LET parts == Split(name, "/")
             IN  IF Contains(parts[1], ".") \/ Contains(parts[1], ":")
                 THEN <<parts[1], Join(Tail(parts), "/"), tag>>
                 ELSE <<DockerIo, name, tag>>
        ELSE <<DockerIo, LibraryPrefix \o name, tag>>

\* The triple <<registry, repository, tag>> parse_image_name returns.
parse_image_name(image) ==
    LET hasTag == Contains(image, ":")
        name == IF hasTag THEN RSplit1(image, ":")[1] ELSE image
        tag == IF hasTag THEN RSplit1(image, ":")[2] ELSE Latest
    IN  IF Contains(name, "/")
        THEN LET parts == Split(name, "/")
             IN  IF Contains(parts[1], ".") \/ Contains(parts[1], ":")
                 THEN <<parts[1], Join(Tail(parts), "/"), tag>>
                 ELSE <<DockerIo, name, tag>>
        ELSE <<DockerIo, LibraryPrefix \o name, tag>>

\* registry + '/' + repository + ':' + tag
Canonical(ref) == ref[1] \o <<"/">> \o ref[2] \o <<":">> \o ref[3]

----------------------------------------------------------------------------
(* Input strings of the parser run *)

RECURSIVE StringsUpTo(_)
StringsUpTo(n) ==
    IF n = 0 THEN {<<>>}
    ELSE LET shorter == StringsUpTo(n - 1)
         IN  shorter \cup {Append(s, c) : s \in {t \in shorter : Len(t) = n - 1},
                                          c \in Alphabet}

NginxLatest == <<"n","g","i","n","x",":","l","a","t","e","s","t">>
MyorgMyapp == <<"m","y","o","r","g","/","m","y","a","p","p">>
RegistryTeamApp ==
    <<"m","y","r","e","g","i","s","t","r","y",".","e","x","a","m","p","l","e",
      ".","c","o","m",":","5","0","0","0","/","t","e","a","m","/","a","p","p",
      ":","v","2">>

ParseInputs == StringsUpTo(MaxLen) \cup {NginxLatest, MyorgMyapp, RegistryTeamApp}

NoRef == <<<<>>, <<>>, <<>>>>

----------------------------------------------------------------------------
(* The batch run: validate_image_list over a list of image strings *)

\* The image strings of a batch, one for each way check_image_exists names
\* the repository: an official image (library/a, named a for the Hub), an
\* image of another registry (a.a), which has no Hub requests, an image of
\* an organisation on docker.io (a/a, named as it is), and a repository that
\* holds library/ twice (every occurrence is removed for the Hub).
ImgOfficial == <<"a">>
ImgHost == <<"a", ".", "a", "/", "a">>
ImgOrg == <<"a", "/", "a">>
ImgLibraryTwice == LibraryPrefix \o LibraryPrefix \o <<"a">>

CoreImages == {ImgOfficial, ImgHost}
BatchImages == CoreImages \cup {ImgOrg, ImgLibraryTwice}

RECURSIVE ListsUpTo(_)
ListsUpTo(n) ==
    IF n = 0 THEN {<<>>}
    ELSE LET shorter == ListsUpTo(n - 1)
         IN  shorter \cup {Append(l, i) : l \in {m \in shorter : Len(m) = n - 1},
                                          i \in CoreImages}

\* The batches: every list of up to MaxImages core images, and every list of
\* one or two of all the images.
ImageLists ==
    ListsUpTo(MaxImages) \cup {<<i>> : i \in BatchImages}
                         \cup {<<i, j>> : i \in BatchImages, j \in BatchImages}

\* Outcomes of one HTTP request. "raise" is any exception of the request
\* other than a timeout, "timeout" the timeout exception, "status" a
\* response whose status_code is not 200, "badjson" a 200 response whose
\* body .json()/.get() cannot read.
Exceptions == {"raise", "timeout"}
AuthOutcomes == Exceptions \cup {"status", "badjson", "notoken", "token"}
ManifestOutcomes == Exceptions \cup {"status", "200"}
MetadataOutcomes == Exceptions \cup {"status", "badjson", "defaults", "full"}
TagsOutcomes == Exceptions \cup {"status", "badjson", "200"}

\* Outcomes of one print: TRUE when stdout takes the text, FALSE when print
\* raises (stdout is a pipe whose reader has gone, or the text cannot be
\* encoded for it).
PrintOutcomes == BOOLEAN

MetaKeys == {"description", "star_count", "pull_count", "last_updated"}
EmptyMap == [k \in {} |-> "none"]

NoResult ==
    [image |-> <<>>, exists |-> FALSE, registry |-> <<>>, repository |-> <<>>,
     tag |-> <<>>, tags |-> <<>>, metadata |-> EmptyMap, errors |-> <<>>]

ParseIdle ==
    /\ ppc = "idle"
    /\ pin = <<>>
    /\ pout = NoRef
    /\ pout2 = NoRef

BatchIdle ==
    /\ pc = "idle"
    /\ images = <<>>
    /\ idx = 1
    /\ total_images = 0
    /\ results = <<>>
    /\ result = NoResult
    /\ net = <<>>
    /\ log = <<>>

\* The validator has been constructed; no batch and no parser run has begun.
Init == BatchIdle /\ ParseIdle

\* One request as the session sends it: the endpoint, the repository and tag
\* its URL (or scope) is built from, and its outcome; n and bad describe a
\* tag listing (n entries, entry number bad has no 'name', 0 for none).
Request(endpoint, repo, tag, out, n, bad) ==
    [endpoint |-> endpoint, repo |-> repo, tag |-> tag, out |-> out,
     n |-> n, bad |-> bad]

\* A pipeline step that has returned val, and one that has raised.
Step(i, step, val) == [i |-> i, step |-> step, val |-> val, raised |-> FALSE]
Raised(i, step) == [i |-> i, step |-> step, val |-> FALSE, raised |-> TRUE]

\* repo_name: repository.replace('library/', '') when repository starts
\* with 'library/', else repository
HubRepoName(repository) ==
    IF StartsWith(repository, LibraryPrefix)
    THEN RemoveAll(repository, LibraryPrefix)
    ELSE repository

\* What check_image_exists returns after a manifest or Hub request:
\* response.status_code == 200, and False from the except clause.
ExistsFromOutcome(out) == out = "200"

\* Mutant: a refused token request ends the check without the Hub fallback.
AuthNextNoFallback(out) ==
    IF out = "token" THEN "manifest"
    ELSE IF out = "notoken" THEN "hub"
    ELSE "return"

\* Where check_image_exists goes after the token request: the manifest
\* request with a token, the Hub fallback after a non-200 status or a body
\* without a token, the except clause otherwise.
AuthNext(out) ==
    IF out = "token" THEN "manifest"
    ELSE IF out \in {"status", "notoken"} THEN "hub"
    ELSE "return"

\* The metadata dict get_image_metadata returns for docker.io.
MetadataFromOutcome(out) ==
    IF out = "full" THEN [k \in MetaKeys |-> "api"]
    ELSE IF out = "defaults" THEN [k \in MetaKeys |-> "default"]
    ELSE EmptyMap

Min(a, b) == IF a <= b THEN a ELSE b

\* The request, or the reading of its answer, raises inside the helper's try
\* block, so that the helper's except clause runs and prints the exception
\* (lines 161-162, 196-197, 229-230).
ReachesExcept(out, n, bad) ==
    \/ out \in Exceptions \cup {"badjson"}
    \/ out = "200" /\ bad \in 1..Min(n, TagLimit)

\* the print outcomes that can follow the request: a print happens only in
\* the except clause
PrintsAfter(out, n, bad) ==
    IF ReachesExcept(out, n, bad) THEN PrintOutcomes ELSE {TRUE}

\* Mutant: the listing is not cut to its first 10 entries.
TagsNoLimit(out, n, bad) ==
    IF out = "200" /\ bad = 0 THEN [k \in 1..n |-> k] ELSE <<>>

\* The tag list get_available_tags returns for docker.io: the names of the
\* first 10 of the n entries (entry k is named k), or [] when the request or
\* the comprehension raises or the status is not 200.
TagsFromOutcome(out, n, bad) ==
    IF out = "200" /\ bad \notin 1..Min(n, TagLimit)
    THEN [k \in 1..Min(n, TagLimit) |-> k]
    ELSE <<>>

\* f"Image {image} not found in registry {registry}" (line 78)
NotFoundError(image, registry) ==
    [kind |-> "not_found", image |-> image, registry |-> registry]

\* f"Error validating {image}: {str(e)}" (line 81)
ValidatingError(image) == [kind |-> "error_validating", image |-> image]

\* validate_image_list, lines 36-40: the batch result is created (its
\* timestamp, which nothing reads, is left out).
ValidateImageList(imgs) ==
    /\ pc = "idle"
    /\ images' = imgs
    /\ total_images' = Len(imgs)
    /\ results' = <<>>
    /\ idx' = 1
    /\ pc' = "loop"
    /\ UNCHANGED <<result, net, log, parseVars>>

\* The loop takes the next image and prints it (lines 42-43). The print
\* stands outside every try: when it raises, the exception leaves
\* validate_image_list and no batch result is returned. Otherwise
\* validate_single_image creates its result and parses the image name
\* (lines 58-71).
ParseImage(printed) ==
    /\ pc = "loop"
    /\ idx <= Len(images)
    /\ IF printed
       THEN /\ LET ref == parse_image_name(images[idx])
               IN  result' = [image |-> images[idx], exists |-> FALSE,
                              registry |-> ref[1], repository |-> ref[2],
                              tag |-> ref[3], tags |-> <<>>,
                              metadata |-> EmptyMap, errors |-> <<>>]
            /\ net' = <<>>
            /\ log' = Append(log, Step(idx, "Parse", TRUE))
            /\ pc' = "check"
       ELSE /\ pc' = "raised"
            /\ UNCHANGED <<result, net, log>>
    /\ UNCHANGED <<images, idx, total_images, results, parseVars>>

\* A helper called inside validate_single_image's try has raised: the
\* except clause appends the error and the result is returned as it stands
\* (lines 80-83).
HelperRaised(step) ==
    /\ log' = Append(log, Raised(idx, step))
    /\ result' = [result EXCEPT !.errors = Append(@, ValidatingError(result.image))]
    /\ pc' = "record"

\* check_image_exists returns b to validate_single_image (lines 73-78).
CheckReturn(b) ==
    /\ log' = Append(log, Step(idx, "CheckExists", b))
    /\ IF b
       THEN /\ result' = [result EXCEPT !.exists = TRUE]
            /\ pc' = "metadata"
       ELSE /\ result' = [result EXCEPT !.errors =
                             Append(@, NotFoundError(result.image, result.registry))]
            /\ pc' = "record"

\* The end of check_image_exists after a request with outcome out: its
\* except clause prints the exception (line 162) and returns False, or the
\* print raises and check_image_exists raises with it; without an exception
\* the status decides.
CheckEnds(out, printed) ==
    IF ReachesExcept(out, 0, 0) /\ ~printed
    THEN HelperRaised("CheckExists")
    ELSE CheckReturn(ExistsFromOutcome(out))

\* check_image_exists for docker.io: the token request (lines 126-138).
AuthRequest(out, printed) ==
    /\ pc = "check"
    /\ result.registry = DockerIo
    /\ net' = Append(net, Request("auth", result.repository, <<>>, out, 0, 0))
    /\ IF AuthNext(out) = "return"
       THEN CheckEnds(out, printed)
       ELSE /\ pc' = AuthNext(out)
            /\ UNCHANGED <<result, log>>
    /\ UNCHANGED <<images, idx, total_images, results, parseVars>>

\* The manifest request with the bearer token (lines 139-145).
ManifestRequest(out, printed) ==
    /\ pc = "manifest"
    /\ net' = Append(net, Request("manifest", result.repository, result.tag, out, 0, 0))
    /\ CheckEnds(out, printed)
    /\ UNCHANGED <<images, idx, total_images, results, parseVars>>

\* The Docker Hub fallback (lines 147-154).
HubTagRequest(out, printed) ==
    /\ pc = "hub"
    /\ net' = Append(net, Request("hub_tag", HubRepoName(result.repository),
                                  result.tag, out, 0, 0))
    /\ CheckEnds(out, printed)
    /\ UNCHANGED <<images, idx, total_images, results, parseVars>>

\* check_image_exists for any other registry (lines 156-159).
DirectManifestRequest(out, printed) ==
    /\ pc = "check"
    /\ result.registry # DockerIo
    /\ net' = Append(net, Request("manifest", result.repository, result.tag, out, 0, 0))
    /\ CheckEnds(out, printed)
    /\ UNCHANGED <<images, idx, total_images, results, parseVars>>

\* get_image_metadata for docker.io (lines 75, 177-199).
GetImageMetadata(out, printed) ==
    /\ pc = "metadata"
    /\ result.registry = DockerIo
    /\ net' = Append(net, Request("hub_repo", HubRepoName(result.repository),
                                  <<>>, out, 0, 0))
    /\ IF ReachesExcept(out, 0, 0) /\ ~printed
       THEN HelperRaised("EnrichMetadata")
       ELSE /\ result' = [result EXCEPT !.metadata = MetadataFromOutcome(out)]
            /\ log' = Append(log, Step(idx, "EnrichMetadata", TRUE))
            /\ pc' = "tags"
    /\ UNCHANGED <<images, idx, total_images, results, parseVars>>

\* get_image_metadata for any other registry: no request, {} (lines 177-199).
GetImageMetadataOther ==
    /\ pc = "metadata"
    /\ result.registry # DockerIo
    /\ result' = [result EXCEPT !.metadata = EmptyMap]
    /\ log' = Append(log, Step(idx, "EnrichMetadata", TRUE))
    /\ pc' = "tags"
    /\ UNCHANGED <<images, idx, total_images, results, net, parseVars>>

\* get_available_tags for docker.io (lines 76, 212-232).
GetAvailableTags(out, n, bad, printed) ==
    /\ pc = "tags"
    /\ result.registry = DockerIo
    /\ net' = Append(net, Request("hub_tags", HubRepoName(result.repository),
                                  <<>>, out, n, bad))
    /\ IF ReachesExcept(out, n, bad) /\ ~printed
       THEN HelperRaised("EnrichTags")
       ELSE /\ result' = [result EXCEPT !.tags = TagsFromOutcome(out, n, bad)]
            /\ log' = Append(log, Step(idx, "EnrichTags", TRUE))
            /\ pc' = "record"
    /\ UNCHANGED <<images, idx, total_images, results, parseVars>>

\* get_available_tags for any other registry: no request, [] (lines 212-232).
GetAvailableTagsOther ==
    /\ pc = "tags"
    /\ result.registry # DockerIo
    /\ result' = [result EXCEPT !.tags = <<>>]
    /\ log' = Append(log, Step(idx, "EnrichTags", TRUE))
    /\ pc' = "record"
    /\ UNCHANGED <<images, idx, total_images, results, net, parseVars>>

AllRequestsFailed == \A k \in 1..Len(net) : net[k].out \in Exceptions

\* validate_single_image returns and the result is stored under the image
\* string (lines 83, 44); its locals are gone and the loop moves on.
RecordResult ==
    /\ pc = "record"
    /\ results' = [k \in DOMAIN results \cup {result.image} |->
                      IF k = result.image THEN result ELSE results[k]]
    /\ log' = Append(log, Step(idx, "Record", AllRequestsFailed))
    /\ idx' = idx + 1
    /\ result' = NoResult
    /\ net' = <<>>
    /\ pc' = "loop"
    /\ UNCHANGED <<images, total_images, parseVars>>

\* The loop is over: validate_image_list returns results (line 46).
ReturnResults ==
    /\ pc = "loop"
    /\ idx > Len(images)
    /\ pc' = "returned"
    /\ UNCHANGED <<images, idx, total_images, results, result, net, log, parseVars>>

Next ==
    \/ \E imgs \in ImageLists : ValidateImageList(imgs)
    \/ \E printed \in PrintOutcomes : ParseImage(printed)
    \/ \E out \in AuthOutcomes : \E printed \in PrintsAfter(out, 0, 0) :
          AuthRequest(out, printed)
    \/ \E out \in ManifestOutcomes : \E printed \in PrintsAfter(out, 0, 0) :
          ManifestRequest(out, printed)
    \/ \E out \in ManifestOutcomes : \E printed \in PrintsAfter(out, 0, 0) :
          HubTagRequest(out, printed)
    \/ \E out \in ManifestOutcomes : \E printed \in PrintsAfter(out, 0, 0) :
          DirectManifestRequest(out, printed)
    \/ \E out \in MetadataOutcomes : \E printed \in PrintsAfter(out, 0, 0) :
          GetImageMetadata(out, printed)
    \/ GetImageMetadataOther
    \/ \E out \in TagsOutcomes : \E n \in 0..MaxApiTags :
          \E bad \in (IF out = "200" THEN {0, n} ELSE {0}) :
              \E printed \in PrintsAfter(out, IF out = "200" THEN n ELSE 0, bad) :
                  GetAvailableTags(out, IF out = "200" THEN n ELSE 0, bad, printed)
    \/ GetAvailableTagsOther
    \/ RecordResult
    \/ ReturnResults

Spec == Init /\ [][Next]_vars

----------------------------------------------------------------------------
(* The parser run: one input string, parsed, then its reconstruction parsed *)

InitParse ==
    /\ BatchIdle
    /\ ppc = "input"
    /\ pin \in ParseInputs
    /\ pout = NoRef
    /\ pout2 = NoRef

ParseOnce ==
    /\ ppc = "input"
    /\ pout' = parse_image_name(pin)
    /\ ppc' = "parsed"
    /\ UNCHANGED <<pin, pout2>>
    /\ UNCHANGED batchVars

ParseCanonical ==
    /\ ppc = "parsed"
    /\ pout2' = parse_image_name(Canonical(pout))
    /\ ppc' = "reparsed"
    /\ UNCHANGED <<pin, pout>>
    /\ UNCHANGED batchVars

NextParse == ParseOnce \/ ParseCanonical

SpecParse == InitParse /\ [][NextParse]_vars

----------------------------------------------------------------------------
(* Properties of parse_image_name *)

\* position of the last c in s, 0 when s has none
LastIndexOf(s, c) ==
    IF Contains(s, c)
    THEN CHOOSE i \in 1..Len(s) : s[i] = c /\ \A j \in (i+1)..Len(s) : s[j] # c
    ELSE 0

\* position of the first c in s, 0 when s has none
FirstIndexOf(s, c) ==
    IF Contains(s, c)
    THEN CHOOSE i \in 1..Len(s) : s[i] = c /\ \A j \in 1..(i-1) : s[j] # c
    ELSE 0

\* the text after the last ':', or 'latest'
TagOf(s) ==
    IF LastIndexOf(s, ":") = 0 THEN Latest
    ELSE SubSeq(s, LastIndexOf(s, ":") + 1, Len(s))

\* the text before the last ':', or all of s
RemainderOf(s) ==
    IF LastIndexOf(s, ":") = 0 THEN s
    ELSE SubSeq(s, 1, LastIndexOf(s, ":") - 1)

\* the first '/'-separated segment of r
FirstSegment(r) ==
    IF FirstIndexOf(r, "/") = 0 THEN r
    ELSE SubSeq(r, 1, FirstIndexOf(r, "/") - 1)

\* what follows the first segment of r and its '/'
AfterFirstSegment(r) ==
    IF FirstIndexOf(r, "/") = 0 THEN <<>>
    ELSE SubSeq(r, FirstIndexOf(r, "/") + 1, Len(r))

LooksLikeHost(seg) == Contains(seg, ".") \/ Contains(seg, ":")

\* The algorithm as C4 words it: the registry test is made on the first
\* segment of the remainder, whether or not a '/' follows it.
ClaimedParse(s) ==
    LET r == RemainderOf(s)
    IN  IF LooksLikeHost(FirstSegment(r))
        THEN <<FirstSegment(r), AfterFirstSegment(r), TagOf(s)>>
        ELSE <<DockerIo,
               IF FirstIndexOf(r, "/") = 0 THEN LibraryPrefix \o r ELSE r,
               TagOf(s)>>

\* C4 as amended: the registry test is made only when the remainder has a '/'.
AmendedParse(s) ==
    LET r == RemainderOf(s)
    IN  IF FirstIndexOf(r, "/") # 0 /\ LooksLikeHost(FirstSegment(r))
        THEN <<FirstSegment(r), AfterFirstSegment(r), TagOf(s)>>
        ELSE <<DockerIo,
               IF FirstIndexOf(r, "/") = 0 THEN LibraryPrefix \o r ELSE r,
               TagOf(s)>>

NginxRef == <<DockerIo, LibraryPrefix \o <<"n","g","i","n","x">>, Latest>>
MyorgRef == <<DockerIo, MyorgMyapp, Latest>>
RegistryRef ==
    <<SubSeq(RegistryTeamApp, 1, 27), SubSeq(RegistryTeamApp, 29, 36), <<"v", "2">>>>

\* C3: parsing is idempotent: parsing the canonical reconstruction
\* registry/repository:tag of a parsed reference returns the same triple.
C3_ParseIdempotent == ppc = "reparsed" => pout2 = pout

\* C3 witness: a bare name with a tag was parsed, the defaults were filled
\* in, and the reconstruction (a different string) parsed to the same triple.
C3_Witness ==
    /\ ppc = "reparsed"
    /\ pout[1] = DockerIo
    /\ StartsWith(pout[2], LibraryPrefix)
    /\ pout[3] # Latest
    /\ Canonical(pout) # pin
    /\ pout2 = pout

\* C4 (as stated): parse_image_name returns the triple of the algorithm in
\* which a first segment containing '.' or ':' is always the registry.
C4_AsClaimed == ppc # "input" => pout = ClaimedParse(pin)

\* C4 (amended): parse_image_name returns the triple of the algorithm in
\* which a first segment containing '.' or ':' is the registry only when the
\* remainder contains a '/'; a remainder without '/' always goes to docker.io
\* under library/. The three documented examples give the documented triples.
C4_ParseAlgorithm ==
    ppc # "input" =>
        /\ pout = AmendedParse(pin)
        /\ pin = NginxLatest => pout = NginxRef
        /\ pin = MyorgMyapp => pout = MyorgRef
        /\ pin = RegistryTeamApp => pout = RegistryRef

\* C4 witness: a single segment with a dot was parsed into docker.io/library.
C4_Witness ==
    /\ ppc = "parsed"
    /\ ~Contains(pin, "/")
    /\ Contains(RemainderOf(pin), ".")
    /\ pout[1] = DockerIo
    /\ StartsWith(pout[2], LibraryPrefix)

\* C5 (as stated): the repository returned by parse_image_name is never empty.
C5_RepositoryNonEmpty == ppc # "input" => Len(pout[2]) > 0

----------------------------------------------------------------------------
(* Properties of the batch run *)

\* check_image_exists has returned for the current image
Checked == pc \in {"metadata", "tags", "record"}

\* what check_image_exists returned for the current image
CheckValue ==
    \E k \in 1..Len(log) : log[k] = Step(idx, "CheckExists", TRUE)

Logged(e, before) == \E p \in 1..(before - 1) : log[p] = e

LoggedStep(i, step, before) ==
    \E p \in 1..(before - 1) : log[p].i = i /\ log[p].step = step

\* the request did not deliver a usable answer: it raised or timed out, its
\* status was not 200, or its body could not be read
RequestFailed(e) ==
    \/ e.out \in Exceptions \cup {"status", "badjson"}
    \/ e.out = "200" /\ e.bad \in 1..Min(e.n, TagLimit)

\* C1 (as stated): the batch result returned for N images has
\* total_images = N and exactly N entries in results, repeated image strings
\* included.
C1_BatchCount ==
    pc = "returned" =>
        /\ total_images = Len(images)
        /\ Cardinality(DOMAIN results) = Len(images)

\* C2 (as stated): an image whose network calls all raise or time out is
\* returned with exists = False and a non-empty errors list, and the batch
\* goes on with the remaining images instead of raising: validate_image_list
\* does not raise after such an image, and when it returns every image of
\* the list has been recorded.
C2_AllCallsFail ==
    /\ (pc = "record" /\ Len(net) > 0 /\ AllRequestsFailed) =>
           /\ ~result.exists
           /\ Len(result.errors) > 0
    /\ pc = "raised" => ~Logged(Step(idx - 1, "Record", TRUE), Len(log) + 1)
    /\ pc = "returned" =>
           \A i \in 1..Len(images) :
               /\ LoggedStep(i, "Record", Len(log) + 1)
               /\ images[i] \in DOMAIN results

\* "the same repository" as the claim has it: the Hub request names the
\* repository of the reference, or names it without the library/ namespace
\* that parse_image_name put in front of an official image
SameRepository(hubRepo, repository) ==
    hubRepo = repository \/ LibraryPrefix \o hubRepo = repository

\* position i of r lies inside an occurrence of library/
InLibraryPrefix(r, i) ==
    \E j \in 1..i :
        /\ i < j + Len(LibraryPrefix)
        /\ j + Len(LibraryPrefix) - 1 <= Len(r)
        /\ SubSeq(r, j, j + Len(LibraryPrefix) - 1) = LibraryPrefix

\* The name the Hub is asked for, stated by positions: a repository that
\* does not begin with library/ as it is, any other without the characters of
\* every occurrence of library/ (occurrences cannot overlap).
HubNameOf(repository) ==
    IF Len(repository) >= Len(LibraryPrefix)
       /\ SubSeq(repository, 1, Len(LibraryPrefix)) = LibraryPrefix
    THEN LET kept == {i \in 1..Len(repository) : ~InLibraryPrefix(repository, i)}
         IN  [k \in 1..Cardinality(kept) |->
                 repository[CHOOSE i \in kept :
                                Cardinality({j \in kept : j <= i}) = k]]
    ELSE repository

\* the second request of the check was the Hub tag request for the tag of the
\* reference, and its success status is the result
FellBack(named) ==
    /\ Len(net) >= 2
    /\ net[2].endpoint = "hub_tag"
    /\ named
    /\ net[2].tag = result.tag
    /\ result.exists = (net[2].out = "200")

\* C6 (as stated): for docker.io, whenever token acquisition fails (the
\* request raises or times out, answers a non-200 status, or a body without
\* token) the Hub API is queried for the same repository and tag and decides.
C6_FallbackOnAnyFailure ==
    (Checked /\ result.registry = DockerIo
        /\ net[1].out \in Exceptions \cup {"status", "notoken"})
        => FellBack(SameRepository(net[2].repo, result.repository))

\* C6 (amended): for docker.io, when the token request answers a non-200
\* status or a body without token, the Hub API is queried for the tag of the
\* reference and for its repository under its Hub name (the repository
\* itself, or, when it begins with library/, the repository without every
\* occurrence of library/), and the success status of that request is the
\* result; when the token request raises or times out, or its body cannot be
\* read, no other request is made and the image is reported as not existing.
C6_FallbackOnRefusal ==
    (Checked /\ result.registry = DockerIo) =>
        /\ net[1].endpoint = "auth"
        /\ net[1].out \in {"status", "notoken"}
               => FellBack(net[2].repo = HubNameOf(result.repository))
        /\ net[1].out \in Exceptions \cup {"badjson"} =>
               /\ Len(net) = 1
               /\ ~result.exists

\* C6 witness: the token request for library/library/a was refused, the Hub
\* was asked for a and found the image.
C6_Witness ==
    /\ Checked
    /\ result.registry = DockerIo
    /\ result.repository = LibraryPrefix \o LibraryPrefix \o <<"a">>
    /\ net[1].out = "status"
    /\ Len(net) >= 2
    /\ net[2].endpoint = "hub_tag"
    /\ net[2].repo = <<"a">>
    /\ net[2].out = "200"
    /\ result.exists

\* C7 (as stated): once the existence check has succeeded, a failing
\* metadata or tag request leaves exists = True and degrades its field to an
\* empty mapping or an empty list, and does not abort the validation of the
\* image: both enrichment steps return and no error is recorded.
C7_EnrichmentDegrades ==
    (pc \in {"tags", "record"} /\ CheckValue) =>
        /\ result.exists
        /\ \A k \in 1..Len(net) :
               /\ (net[k].endpoint = "hub_repo" /\ RequestFailed(net[k]))
                      => result.metadata = EmptyMap
               /\ (net[k].endpoint = "hub_tags" /\ RequestFailed(net[k]))
                      => result.tags = <<>>
        /\ result.errors = <<>>
        /\ Logged(Step(idx, "EnrichMetadata", TRUE), Len(log) + 1)
        /\ pc = "record" => Logged(Step(idx, "EnrichTags", TRUE), Len(log) + 1)

\* C8: no result of a batch has more than 10 tags.
C8_TagLimit ==
    /\ Len(result.tags) <= TagLimit
    /\ \A img \in DOMAIN results : Len(results[img].tags) <= TagLimit

\* C8 witness: the tag listing had more than 10 entries and the result has 10.
C8_Witness ==
    /\ pc = "record"
    /\ net[Len(net)].endpoint = "hub_tags"
    /\ net[Len(net)].n > TagLimit
    /\ Len(result.tags) = TagLimit

Rank(step) ==
    CASE step = "Parse" -> 1
      [] step = "CheckExists" -> 2
      [] step = "EnrichMetadata" -> 3
      [] step = "EnrichTags" -> 4
      [] step = "Record" -> 5

\* C9 (as stated): the steps of a batch form the linear pipeline Parse,
\* CheckExists, (after a check that returned true, and only then)
\* EnrichMetadata, EnrichTags, Record. A step runs only after its predecessor
\* for the same image has finished, by returning or by raising; the
\* predecessor of Record is EnrichTags for an image whose check returned
\* true and CheckExists for any other. EnrichMetadata runs only after a check
\* that returned true. No step and no request to one endpoint happens twice
\* for one image of the list, and an image is parsed only after the image
\* before it has been recorded.
C9_LinearPipeline ==
    /\ \A q \in 1..Len(log) :
           LET e == log[q]
           IN  /\ e.step = "Parse" =>
                      e.i = 1 \/ LoggedStep(e.i - 1, "Record", q)
               /\ e.step = "CheckExists" => LoggedStep(e.i, "Parse", q)
               /\ e.step = "EnrichMetadata" =>
                      Logged(Step(e.i, "CheckExists", TRUE), q)
               /\ e.step = "EnrichTags" => LoggedStep(e.i, "EnrichMetadata", q)
               /\ e.step = "Record" =>
                      /\ LoggedStep(e.i, "CheckExists", q)
                      /\ Logged(Step(e.i, "CheckExists", TRUE), q)
                             => LoggedStep(e.i, "EnrichTags", q)
    /\ \A p, q \in 1..Len(log) :
           p < q =>
               /\ log[p].i <= log[q].i
               /\ log[p].i = log[q].i => Rank(log[p].step) < Rank(log[q].step)
    /\ \A j, k \in 1..Len(net) : j < k => net[j].endpoint # net[k].endpoint
    /\ (\E k \in 1..Len(net) : net[k].endpoint \in {"hub_repo", "hub_tags"})
           => CheckValue

ResultShape(r) ==
    /\ r.exists <=> r.errors = <<>>
    /\ Len(r.errors) <= 1
    /\ ~r.exists => r.metadata = EmptyMap /\ r.tags = <<>>

\* C10 (as stated): every result validate_single_image returns has
\* exists = True exactly when errors is empty, at most one error, and empty
\* metadata and tags when exists = False.
C10_ResultShape ==
    /\ pc = "record" => ResultShape(result)
    /\ \A img \in DOMAIN results : ResultShape(results[img])

====
